---- MODULE Spec2Model ----
(***************************************************************************)
(* saml2alibabacloud: the provider registry (MFAsByProvider, NewSAMLClient),*)
(* the interactive prompts (PromptForConfigurationDetails,                 *)
(* PromptForRamRoleSelection) and the profile configuration store          *)
(* (IDPAccount.Validate, ConfigManager.SaveIDPAccount / LoadIDPAccount).   *)
(*                                                                         *)
(* Go strings are modelled as sequences of byte values, so that equality   *)
(* is case-sensitive byte equality and sort.Strings is the byte-wise       *)
(* lexicographic order the Go runtime uses.                                *)
(***************************************************************************)
EXTENDS Integers, Sequences, FiniteSets, TLC

VARIABLES
    MFAsByProvider, \* the package-level provider -> MFA list table
    configFile,     \* the ini file at ConfigManager.configPath
    call,           \* the last call made: its inputs and what it returned
    invocations     \* the CLI invocations saving at the same time: where each
                    \* is in SaveIDPAccount, and what it holds in memory

vars == <<MFAsByProvider, configFile, call, invocations>>

----------------------------------------------------------------------------
(* String literals of the source, as byte sequences.                       *)

s_empty == <<>>  \* ""
s_AzureAD == <<65, 122, 117, 114, 101, 65, 68>>  \* "AzureAD"
s_ADFS == <<65, 68, 70, 83>>  \* "ADFS"
s_ADFS2 == <<65, 68, 70, 83, 50>>  \* "ADFS2"
s_Ping == <<80, 105, 110, 103>>  \* "Ping"
s_PingOne == <<80, 105, 110, 103, 79, 110, 101>>  \* "PingOne"
s_JumpCloud == <<74, 117, 109, 112, 67, 108, 111, 117, 100>>  \* "JumpCloud"
s_Okta == <<79, 107, 116, 97>>  \* "Okta"
s_OneLogin == <<79, 110, 101, 76, 111, 103, 105, 110>>  \* "OneLogin"
s_KeyCloak == <<75, 101, 121, 67, 108, 111, 97, 107>>  \* "KeyCloak"
s_GoogleApps == <<71, 111, 111, 103, 108, 101, 65, 112, 112, 115>>  \* "GoogleApps"
s_Shibboleth == <<83, 104, 105, 98, 98, 111, 108, 101, 116, 104>>  \* "Shibboleth"
s_F5APM == <<70, 53, 65, 80, 77>>  \* "F5APM"
s_Akamai == <<65, 107, 97, 109, 97, 105>>  \* "Akamai"
s_ShibbolethECP == <<83, 104, 105, 98, 98, 111, 108, 101, 116, 104, 69, 67, 80>>  \* "ShibbolethECP"
s_NetIQ == <<78, 101, 116, 73, 81>>  \* "NetIQ"
s_Custom == <<67, 117, 115, 116, 111, 109>>  \* "Custom"
s_Browser == <<66, 114, 111, 119, 115, 101, 114>>  \* "Browser"
s_Shell == <<83, 104, 101, 108, 108>>  \* "Shell"
s_Auto == <<65, 117, 116, 111>>  \* "Auto"
s_PhoneAppOTP == <<80, 104, 111, 110, 101, 65, 112, 112, 79, 84, 80>>  \* "PhoneAppOTP"
s_PhoneAppNotification == <<80, 104, 111, 110, 101, 65, 112, 112, 78, 111, 116, 105, 102, 105, 99, 97, 116, 105, 111, 110>>  \* "PhoneAppNotification"
s_OneWaySMS == <<79, 110, 101, 87, 97, 121, 83, 77, 83>>  \* "OneWaySMS"
s_VIP == <<86, 73, 80>>  \* "VIP"
s_Azure == <<65, 122, 117, 114, 101>>  \* "Azure"
s_RSA == <<82, 83, 65>>  \* "RSA"
s_PUSH == <<80, 85, 83, 72>>  \* "PUSH"
s_DUO == <<68, 85, 79>>  \* "DUO"
s_SMS == <<83, 77, 83>>  \* "SMS"
s_TOTP == <<84, 79, 84, 80>>  \* "TOTP"
s_OKTA == <<79, 75, 84, 65>>  \* "OKTA"
s_FIDO == <<70, 73, 68, 79>>  \* "FIDO"
s_YUBICO_TOKEN_HARDWARE == <<89, 85, 66, 73, 67, 79, 32, 84, 79, 75, 69, 78, 58, 72, 65, 82, 68, 87, 65, 82, 69>>  \* "YUBICO TOKEN:HARDWARE"
s_OLP == <<79, 76, 80>>  \* "OLP"
s_YUBIKEY == <<89, 85, 66, 73, 75, 69, 89>>  \* "YUBIKEY"
s_EMAIL == <<69, 77, 65, 73, 76>>  \* "EMAIL"
s_auto == <<97, 117, 116, 111>>  \* "auto"
s_phone == <<112, 104, 111, 110, 101>>  \* "phone"
s_push == <<112, 117, 115, 104>>  \* "push"
s_passcode == <<112, 97, 115, 115, 99, 111, 100, 101>>  \* "passcode"
s_Privileged == <<80, 114, 105, 118, 105, 108, 101, 103, 101, 100>>  \* "Privileged"

----------------------------------------------------------------------------
(* Go string comparison and sort.Strings.                                  *)

\* a < b on Go strings: byte-wise lexicographic order.
RECURSIVE Less(_, _)
Less(a, b) ==
    IF b = <<>> THEN FALSE
    ELSE IF a = <<>> THEN TRUE
    ELSE IF a[1] # b[1] THEN a[1] < b[1]
    ELSE Less(Tail(a), Tail(b))

\* Insert x into the ascending sequence s, keeping it ascending.
RECURSIVE Insert(_, _)
Insert(x, s) ==
    IF s = <<>> THEN <<x>>
    ELSE IF Less(x, s[1]) THEN <<x>> \o s
    ELSE <<s[1]>> \o Insert(x, Tail(s))

\* sort.Strings: the elements of s in ascending byte-wise order.
RECURSIVE SortStrings(_)
SortStrings(s) ==
    IF s = <<>> THEN <<>> ELSE Insert(s[1], SortStrings(Tail(s)))

SeqToSet(s) == { s[i] : i \in 1..Len(s) }

\* The keys of a Go map collected by a range loop (in any order), then sorted.
RECURSIVE SortedKeys(_)
SortedKeys(S) ==
    IF S = {} THEN <<>>
    ELSE LET k == CHOOSE x \in S : \A y \in S : x = y \/ Less(x, y)
         IN  <<k>> \o SortedKeys(S \ {k})

----------------------------------------------------------------------------
(* The provider registry.                                                  *)

\* var MFAsByProvider = ProviderList{...}: the table as the source writes it.
InitialMFAsByProvider ==
    (s_AzureAD :> <<s_Auto, s_PhoneAppOTP, s_PhoneAppNotification, s_OneWaySMS>>) @@
    (s_ADFS :> <<s_Auto, s_VIP, s_Azure>>) @@
    (s_ADFS2 :> <<s_Auto, s_RSA>>) @@
    (s_Ping :> <<s_Auto>>) @@
    (s_PingOne :> <<s_Auto>>) @@
    (s_JumpCloud :> <<s_Auto>>) @@
    (s_Okta :> <<s_Auto, s_PUSH, s_DUO, s_SMS, s_TOTP, s_OKTA, s_FIDO,
                 s_YUBICO_TOKEN_HARDWARE>>) @@
    (s_OneLogin :> <<s_Auto, s_OLP, s_SMS, s_TOTP, s_YUBIKEY>>) @@
    (s_KeyCloak :> <<s_Auto>>) @@
    (s_GoogleApps :> <<s_Auto>>) @@
    (s_Shibboleth :> <<s_Auto>>) @@
    (s_F5APM :> <<s_Auto>>) @@
    (s_Akamai :> <<s_Auto, s_DUO, s_SMS, s_EMAIL, s_TOTP>>) @@
    (s_ShibbolethECP :> <<s_auto, s_phone, s_push, s_passcode>>) @@
    (s_NetIQ :> <<s_Auto, s_Privileged>>) @@
    (s_Custom :> <<s_Auto>>) @@
    (s_Browser :> <<s_Auto>>)

\* ProviderList.Names: a fresh slice of the keys, sorted.
Names(mfbp) == SortedKeys(DOMAIN mfbp)

\* ProviderList.Mfas: mfas := mfbp[provider] shares its backing array with
\* the map's value, and sort.Strings(mfas) sorts that array in place.  The
\* result is the returned slice and the table as the call leaves it; a
\* provider that is no key yields the nil slice and touches nothing.
Mfas(mfbp, provider) ==
    IF provider \in DOMAIN mfbp
    THEN LET mfas == SortStrings(mfbp[provider])
         IN  [ret |-> mfas, table |-> [mfbp EXCEPT ![provider] = mfas]]
    ELSE [ret |-> <<>>, table |-> mfbp]

stringInSliceFirstOnly(a, list) == list # <<>> /\ list[1] = a

\* ProviderList.stringInSlice: b == a for some element b of list.
stringInSlice(a, list) == \E i \in 1..Len(list) : list[i] = a

\* invalidMFA: the answer, and the table as its call of Mfas leaves it.
invalidMFA(mfbp, provider, mfa) ==
    LET m == Mfas(mfbp, provider)
    IN  [ret |-> ~stringInSlice(mfa, m.ret), table |-> m.table]

DefaultCaseBuildsCustom(provider) == [check |-> FALSE, new |-> "custom"]

\* The default branch of NewSAMLClient's switch: no constructor.
DefaultCase(provider) == [check |-> FALSE, new |-> "none"]

\* The switch of NewSAMLClient: for each case, whether it calls invalidMFA
\* first and which package's New it returns.
SwitchCase(provider) ==
    CASE provider = s_AzureAD -> [check |-> TRUE, new |-> "aad"]
      [] provider = s_ADFS -> [check |-> TRUE, new |-> "adfs"]
      [] provider = s_ADFS2 -> [check |-> TRUE, new |-> "adfs2"]
      [] provider = s_Ping -> [check |-> TRUE, new |-> "pingfed"]
      [] provider = s_PingOne -> [check |-> TRUE, new |-> "pingone"]
      [] provider = s_JumpCloud -> [check |-> TRUE, new |-> "jumpcloud"]
      [] provider = s_Okta -> [check |-> TRUE, new |-> "okta"]
      [] provider = s_OneLogin -> [check |-> TRUE, new |-> "onelogin"]
      [] provider = s_KeyCloak -> [check |-> TRUE, new |-> "keycloak"]
      [] provider = s_GoogleApps -> [check |-> TRUE, new |-> "googleapps"]
      [] provider = s_Shibboleth -> [check |-> TRUE, new |-> "shibboleth"]
      [] provider = s_ShibbolethECP -> [check |-> TRUE, new |-> "shibbolethecp"]
      [] provider = s_F5APM -> [check |-> TRUE, new |-> "f5apm"]
      [] provider = s_Akamai -> [check |-> TRUE, new |-> "akamai"]
      [] provider = s_Shell -> [check |-> FALSE, new |-> "shell"]
      [] provider = s_NetIQ -> [check |-> TRUE, new |-> "netiq"]
      [] provider = s_Browser -> [check |-> FALSE, new |-> "browser"]
      [] provider = s_Custom -> [check |-> FALSE, new |-> "custom"]
      [] OTHER -> DefaultCase(provider)

\* NewSAMLClient(idpAccount), reading idpAccount.Provider and idpAccount.MFA.
\* new is the package whose New(idpAccount) is called ("none": no provider
\* flow is constructed); err is "nil" when the result is whatever that
\* constructor returns.
NewSAMLClientResult(mfbp, provider, mfa) ==
    LET c == SwitchCase(provider)
        v == invalidMFA(mfbp, provider, mfa)
    IN  IF c.new = "none"
        THEN [new |-> "none", err |-> "invalid provider", table |-> mfbp]
        ELSE IF ~c.check
        THEN [new |-> c.new, err |-> "nil", table |-> mfbp]
        ELSE IF v.ret
        THEN [new |-> "none", err |-> "invalid MFA type", table |-> v.table]
        ELSE [new |-> c.new, err |-> "nil", table |-> v.table]

----------------------------------------------------------------------------
(* cfg.IDPAccount.                                                         *)

DefaultAlibabaCloudURN ==
    <<117, 114, 110, 58, 97, 108, 105, 98, 97, 98, 97, 58, 99, 108, 111, 117,
      100, 99, 111, 109, 112, 117, 116, 105, 110, 103>>  \* "urn:alibaba:cloudcomputing"
DefaultSessionDuration == 3600
DefaultProfile == <<115, 97, 109, 108>>  \* "saml"

\* The zero value of the IDPAccount struct.
ZeroIDPAccount ==
    [AppID |-> <<>>, URL |-> <<>>, Username |-> <<>>, Provider |-> <<>>,
     MFA |-> <<>>, SkipVerify |-> FALSE, Timeout |-> 0,
     AlibabaCloudURN |-> <<>>, SessionDuration |-> 0, Profile |-> <<>>,
     ResourceID |-> <<>>, Subdomain |-> <<>>, RoleARN |-> <<>>,
     Region |-> <<>>, HTTPAttemptsCount |-> <<>>, HTTPRetryDelay |-> <<>>,
     BrowserType |-> <<>>, BrowserExecutablePath |-> <<>>,
     BrowserAutoFill |-> FALSE, DownloadBrowser |-> FALSE,
     BrowserDriverDir |-> <<>>, Headless |-> FALSE, Prompter |-> <<>>]

\* NewIDPAccount: the zero value with the three defaults filled in.
NewIDPAccount ==
    [ZeroIDPAccount EXCEPT !.AlibabaCloudURN = DefaultAlibabaCloudURN,
                           !.SessionDuration = DefaultSessionDuration,
                           !.Profile = DefaultProfile]

----------------------------------------------------------------------------
(* pkg/prompter, as PromptForConfigurationDetails and                      *)
(* PromptForRamRoleSelection use it.                                       *)

s_typed == <<116, 121, 112, 101, 100>>  \* "typed"

\* prompter.ChooseWithDefault(prompt, default, options): one of the options,
\* or the empty string and an error.
ChooseWithDefault(options) ==
    { [v |-> o, err |-> FALSE] : o \in options } \cup { [v |-> <<>>, err |-> TRUE] }

\* prompter.String(prompt, default): the default when the user just hits
\* enter, or what the user types.
PrompterString(default, types) == IF types THEN s_typed ELSE default

----------------------------------------------------------------------------
(* The registry's calls.                                                   *)

s_okta_lower == <<111, 107, 116, 97>>  \* "okta"
s_AUTO == <<65, 85, 84, 79>>  \* "AUTO"
s_Unlisted == <<85, 110, 108, 105, 115, 116, 101, 100>>  \* "Unlisted"

\* Provider names a caller may pass: every key of the table, "Shell", and
\* names the switch does not know.
ProviderInputs ==
    DOMAIN InitialMFAsByProvider \cup {s_Shell, s_empty, s_okta_lower}

\* MFA names a caller may pass with a provider: every MFA the table lists
\* for it, and names it does not list (other case, other providers', none).
MFAInputs(provider) ==
    (IF provider \in DOMAIN InitialMFAsByProvider
     THEN SeqToSet(InitialMFAsByProvider[provider]) ELSE {})
        \cup {s_empty, s_Auto, s_auto, s_AUTO, s_TOTP, s_Unlisted}

NoFile == [state |-> "missing", sections |-> <<>>]

\* No invocation is saving at the same time as another.
NoInvocations == <<>>

\* The call returns to its caller, which may make the next one.
Return ==
    /\ call.op # "idle"
    /\ call' = [op |-> "idle"]
    /\ UNCHANGED <<MFAsByProvider, configFile, invocations>>

InitRegistry ==
    /\ MFAsByProvider = InitialMFAsByProvider
    /\ configFile = NoFile
    /\ call = [op |-> "idle"]
    /\ invocations = NoInvocations

CallNames ==
    /\ call.op = "idle"
    /\ call' = [op |-> "Names", ret |-> Names(MFAsByProvider)]
    /\ UNCHANGED <<MFAsByProvider, configFile, invocations>>

CallMfas ==
    /\ call.op = "idle"
    /\ \E provider \in ProviderInputs :
        LET m == Mfas(MFAsByProvider, provider)
        IN  /\ call' = [op |-> "Mfas", provider |-> provider, ret |-> m.ret]
            /\ MFAsByProvider' = m.table
            /\ UNCHANGED <<configFile, invocations>>

CallNewSAMLClient ==
    /\ call.op = "idle"
    /\ \E provider \in ProviderInputs : \E mfa \in MFAInputs(provider) :
        LET r == NewSAMLClientResult(MFAsByProvider, provider, mfa)
        IN  /\ call' = [op |-> "NewSAMLClient", provider |-> provider, mfa |-> mfa,
                        new |-> r.new, err |-> r.err]
            /\ MFAsByProvider' = r.table
            /\ UNCHANGED <<configFile, invocations>>

\* PromptForConfigurationDetails(idpAccount) on a fresh account.  types says
\* whether the user types a value at the text prompts or accepts the default.
PromptForConfigurationDetails ==
    /\ call.op = "idle"
    /\ \E p \in ChooseWithDefault(SeqToSet(Names(MFAsByProvider))), types \in BOOLEAN :
        LET a1 == [NewIDPAccount EXCEPT !.Provider = p.v]
            m == Mfas(MFAsByProvider, a1.Provider)
            Rest(a) ==
                LET a2 == [a EXCEPT !.Profile = PrompterString(a.Profile, types),
                                    !.URL = PrompterString(a.URL, types),
                                    !.Username = PrompterString(a.Username, types)]
                IN  CASE a2.Provider = s_OneLogin ->
                           [a2 EXCEPT !.AppID = PrompterString(a2.AppID, types),
                                      !.Subdomain = PrompterString(a2.Subdomain, types)]
                      [] a2.Provider = s_F5APM ->
                           [a2 EXCEPT !.ResourceID = PrompterString(a2.ResourceID, types)]
                      [] a2.Provider = s_AzureAD ->
                           [a2 EXCEPT !.AppID = PrompterString(a2.AppID, types)]
                      [] OTHER -> a2
        IN  IF p.err
            THEN /\ call' = [op |-> "PromptForConfigurationDetails", account |-> a1,
                             err |-> "error selecting provider file"]
                 /\ UNCHANGED <<MFAsByProvider, configFile, invocations>>
            ELSE /\ MFAsByProvider' = m.table
                 /\ UNCHANGED <<configFile, invocations>>
                 /\ IF Len(m.ret) > 1
                    THEN \E c \in ChooseWithDefault(SeqToSet(m.ret)) :
                            IF c.err
                            THEN call' = [op |-> "PromptForConfigurationDetails",
                                          account |-> [a1 EXCEPT !.MFA = c.v],
                                          err |-> "error selecting mfa"]
                            ELSE call' = [op |-> "PromptForConfigurationDetails",
                                          account |-> Rest([a1 EXCEPT !.MFA = c.v]),
                                          err |-> "nil"]
                    ELSE IF Len(m.ret) = 0
                    THEN call' = [op |-> "PromptForConfigurationDetails",
                                  account |-> a1, err |-> "panic: index out of range"]
                    ELSE call' = [op |-> "PromptForConfigurationDetails",
                                  account |-> Rest([a1 EXCEPT !.MFA = m.ret[1]]),
                                  err |-> "nil"]

NextRegistry ==
    \/ CallNames
    \/ CallMfas
    \/ CallNewSAMLClient
    \/ PromptForConfigurationDetails
    \/ Return

SpecRegistry == InitRegistry /\ [][NextRegistry]_vars


----------------------------------------------------------------------------
(* net/url.Parse, as IDPAccount.Validate uses it: only whether it returns  *)
(* an error.  Bytes: '\n' 10, ' ' 32, '#' 35, '%' 37, '*' 42, '/' 47,      *)
(* ':' 58, '?' 63, '@' 64, '[' 91.  The URLs the model passes hold no '@'  *)
(* and no '[', so userinfo and IPv6 literals are left out of parseHost.    *)

IsAlpha(c) == (65 <= c /\ c <= 90) \/ (97 <= c /\ c <= 122)
IsDigit(c) == 48 <= c /\ c <= 57
ishex(c) == IsDigit(c) \/ (97 <= c /\ c <= 102) \/ (65 <= c /\ c <= 70)

\* strings.IndexByte, 1-based; 0 when c does not occur in s.
IndexByte(s, c) ==
    IF \E i \in 1..Len(s) : s[i] = c
    THEN CHOOSE i \in 1..Len(s) : s[i] = c /\ \A j \in 1..(i - 1) : s[j] # c
    ELSE 0

\* strings.LastIndexByte, 1-based; 0 when c does not occur in s.
LastIndexByte(s, c) ==
    IF \E i \in 1..Len(s) : s[i] = c
    THEN CHOOSE i \in 1..Len(s) : s[i] = c /\ \A j \in (i + 1)..Len(s) : s[j] # c
    ELSE 0

\* s[:i-1] and s[i+1:] around the 1-based index i; all of s and "" when i = 0.
Before(s, i) == IF i = 0 THEN s ELSE SubSeq(s, 1, i - 1)
After(s, i) == IF i = 0 THEN <<>> ELSE SubSeq(s, i + 1, Len(s))

stringContainsCTLByte(s) == \E i \in 1..Len(s) : s[i] < 32 \/ s[i] = 127

\* getScheme: the scheme, the rest and the error, scanning from byte i.
RECURSIVE getSchemeFrom(_, _)
getSchemeFrom(rawURL, i) ==
    IF i > Len(rawURL)
    THEN [scheme |-> <<>>, rest |-> rawURL, err |-> "nil"]
    ELSE LET c == rawURL[i]
         IN  IF IsAlpha(c) THEN getSchemeFrom(rawURL, i + 1)
             ELSE IF IsDigit(c) \/ c \in {43, 45, 46}
             THEN IF i = 1
                  THEN [scheme |-> <<>>, rest |-> rawURL, err |-> "nil"]
                  ELSE getSchemeFrom(rawURL, i + 1)
             ELSE IF c = 58
             THEN IF i = 1
                  THEN [scheme |-> <<>>, rest |-> <<>>, err |-> "missing protocol scheme"]
                  ELSE [scheme |-> SubSeq(rawURL, 1, i - 1),
                        rest |-> SubSeq(rawURL, i + 1, Len(rawURL)), err |-> "nil"]
             ELSE [scheme |-> <<>>, rest |-> rawURL, err |-> "nil"]

getScheme(rawURL) == getSchemeFrom(rawURL, 1)

\* In the host, every byte below 0x80 that shouldEscape(c, encodeHost) flags.
shouldEscapeHost(c) ==
    ~(\/ IsAlpha(c) \/ IsDigit(c)
      \/ c \in {33, 36, 38, 39, 40, 41, 42, 43, 44, 59, 61, 58, 91, 93, 60, 62, 34}
      \/ c \in {45, 95, 46, 126})

\* unescape(s, mode): the error it returns, scanning from byte i.  Every mode
\* rejects a '%' not followed by two hex digits; the host mode also rejects
\* %0x..%7x other than %25 and the bytes shouldEscapeHost flags.
RECURSIVE unescapeFrom(_, _, _)
unescapeFrom(s, i, host) ==
    IF i > Len(s) THEN "nil"
    ELSE IF s[i] = 37
    THEN IF i + 2 > Len(s) \/ ~ishex(s[i + 1]) \/ ~ishex(s[i + 2])
         THEN "invalid URL escape"
         ELSE IF host /\ (48 <= s[i + 1] /\ s[i + 1] <= 55)
                      /\ SubSeq(s, i, i + 2) # <<37, 50, 53>>
         THEN "invalid URL escape"
         ELSE unescapeFrom(s, i + 3, host)
    ELSE IF host /\ s[i] < 128 /\ shouldEscapeHost(s[i])
    THEN "invalid character in host name"
    ELSE unescapeFrom(s, i + 1, host)

validOptionalPort(port) ==
    \/ port = <<>>
    \/ port[1] = 58 /\ \A i \in 2..Len(port) : IsDigit(port[i])

\* parseHost, for a host that is no IPv6 literal.
parseHost(host) ==
    LET i == LastIndexByte(host, 58)
    IN  IF i # 0 /\ ~validOptionalPort(SubSeq(host, i, Len(host)))
        THEN "invalid port after host"
        ELSE unescapeFrom(host, 1, TRUE)

\* parse(rawURL, viaRequest = false): the error it returns.
parse(rawURL) ==
    LET s == getScheme(rawURL)
        rest == Before(s.rest, IndexByte(s.rest, 63))
        slash == IndexByte(rest, 47)
        hasAuthority ==
            /\ Len(rest) >= 2 /\ SubSeq(rest, 1, 2) = <<47, 47>>
            /\ (s.scheme # <<>> \/ ~(Len(rest) >= 3 /\ rest[3] = 47))
        afterSlashes == SubSeq(rest, 3, Len(rest))
        cut == IndexByte(afterSlashes, 47)
        authority == Before(afterSlashes, cut)
        path == IF hasAuthority
                THEN (IF cut = 0 THEN <<>> ELSE SubSeq(afterSlashes, cut, Len(afterSlashes)))
                ELSE rest
    IN  IF stringContainsCTLByte(rawURL) THEN "invalid control character in URL"
        ELSE IF rawURL = <<42>> THEN "nil"
        ELSE IF s.err # "nil" THEN s.err
        ELSE IF slash # 1 /\ s.scheme # <<>> THEN "nil"
        ELSE IF slash # 1 /\ IndexByte(Before(rest, slash), 58) # 0
        THEN "first path segment in URL cannot contain colon"
        ELSE IF hasAuthority /\ parseHost(authority) # "nil" THEN parseHost(authority)
        ELSE unescapeFrom(path, 1, FALSE)

\* url.Parse(rawURL): the error it returns, "nil" when it parses.
UrlParse(rawURL) ==
    LET hash == IndexByte(rawURL, 35)
        e == parse(Before(rawURL, hash))
    IN  IF e # "nil" THEN e
        ELSE unescapeFrom(After(rawURL, hash), 1, FALSE)

----------------------------------------------------------------------------
(* IDPAccount.Validate.                                                    *)

ValidateSkipsURLEmpty(ia) ==
    IF ia.Provider = s_OneLogin /\ ia.AppID = <<>> THEN "app ID empty in idp account"
    ELSE IF ia.Provider = s_OneLogin /\ ia.Subdomain = <<>>
    THEN "subdomain empty in idp account"
    ELSE IF ia.Provider = s_F5APM /\ ia.ResourceID = <<>>
    THEN "Resource ID empty in idp account"
    ELSE IF ia.Provider = s_AzureAD /\ ia.AppID = <<>> THEN "app ID empty in idp account"
    ELSE IF UrlParse(ia.URL) # "nil" THEN "URL parse failed"
    ELSE IF ia.Provider = <<>> THEN "Provider empty in idp account"
    ELSE IF ia.MFA = <<>> THEN "MFA empty in idp account"
    ELSE IF ia.Profile = <<>> THEN "Profile empty in idp account"
    ELSE "nil"

\* Validate: the error it returns, "nil" when the account is accepted.
Validate(ia) ==
    IF ia.Provider = s_OneLogin /\ ia.AppID = <<>> THEN "app ID empty in idp account"
    ELSE IF ia.Provider = s_OneLogin /\ ia.Subdomain = <<>>
    THEN "subdomain empty in idp account"
    ELSE IF ia.Provider = s_F5APM /\ ia.ResourceID = <<>>
    THEN "Resource ID empty in idp account"
    ELSE IF ia.Provider = s_AzureAD /\ ia.AppID = <<>> THEN "app ID empty in idp account"
    ELSE IF ia.URL = <<>> THEN "URL empty in idp account"
    ELSE IF UrlParse(ia.URL) # "nil" THEN "URL parse failed"
    ELSE IF ia.Provider = <<>> THEN "Provider empty in idp account"
    ELSE IF ia.MFA = <<>> THEN "MFA empty in idp account"
    ELSE IF ia.Profile = <<>> THEN "Profile empty in idp account"
    ELSE "nil"

\* The longest URL the validation inputs hold.
MaxUrlLen == 3

\* The bytes the URLs are made of: "\n", "%", "/", ":" and "a".
UrlBytes == {10, 37, 47, 58, 97}

UrlInputs == UNION { [1..n -> UrlBytes] : n \in 0..MaxUrlLen }

s_x == <<120>>  \* "x"

\* The accounts Validate is applied to: every URL, with each provider that
\* has a field of its own, one that has none and none at all, and each of
\* the fields Validate reads empty or not.
ValidateInputs ==
    { [NewIDPAccount EXCEPT !.Provider = provider, !.URL = url, !.AppID = app,
                            !.Subdomain = sub, !.ResourceID = res, !.MFA = mfa,
                            !.Profile = profile] :
        provider \in {s_empty, s_OneLogin, s_F5APM, s_AzureAD, s_Okta},
        url \in UrlInputs,
        app \in {s_empty, s_x}, sub \in {s_empty, s_x}, res \in {s_empty, s_x},
        mfa \in {s_empty, s_Auto}, profile \in {s_empty, DefaultProfile} }

InitValidate ==
    /\ MFAsByProvider = InitialMFAsByProvider
    /\ configFile = NoFile
    /\ call = [op |-> "idle"]
    /\ invocations = NoInvocations

CallValidate ==
    /\ call.op = "idle"
    /\ \E ia \in ValidateInputs :
          call' = [op |-> "Validate", account |-> ia, err |-> Validate(ia)]
    /\ UNCHANGED <<MFAsByProvider, configFile, invocations>>

NextValidate == CallValidate \/ Return

SpecValidate == InitValidate /\ [][NextValidate]_vars

----------------------------------------------------------------------------
(* gopkg.in/ini.v1 (v1.57.0), as the ConfigManager uses it.  A parsed file *)
(* is a function from section names to sections, a section a function from *)
(* key names to the values the file holds as text.                         *)

s_DefaultSection == <<68, 69, 70, 65, 85, 76, 84>>  \* "DEFAULT"
s_true == <<116, 114, 117, 101>>  \* "true"
s_false == <<102, 97, 108, 115, 101>>  \* "false"

\* The fields of IDPAccount in declaration order, each with the key its ini
\* tag names, its Go kind and whether the tag says omitempty.
Fields ==
    << [name |-> "AppID", key |-> "app_id", kind |-> "string", omitempty |-> FALSE],
       [name |-> "URL", key |-> "url", kind |-> "string", omitempty |-> FALSE],
       [name |-> "Username", key |-> "username", kind |-> "string", omitempty |-> FALSE],
       [name |-> "Provider", key |-> "provider", kind |-> "string", omitempty |-> FALSE],
       [name |-> "MFA", key |-> "mfa", kind |-> "string", omitempty |-> FALSE],
       [name |-> "SkipVerify", key |-> "skip_verify", kind |-> "bool", omitempty |-> FALSE],
       [name |-> "Timeout", key |-> "timeout", kind |-> "int", omitempty |-> FALSE],
       [name |-> "AlibabaCloudURN", key |-> "alibabacloud_urn", kind |-> "string",
        omitempty |-> FALSE],
       [name |-> "SessionDuration", key |-> "alibabacloud_session_duration",
        kind |-> "int", omitempty |-> FALSE],
       [name |-> "Profile", key |-> "alibabacloud_profile", kind |-> "string",
        omitempty |-> FALSE],
       [name |-> "ResourceID", key |-> "resource_id", kind |-> "string", omitempty |-> FALSE],
       [name |-> "Subdomain", key |-> "subdomain", kind |-> "string", omitempty |-> FALSE],
       [name |-> "RoleARN", key |-> "role_arn", kind |-> "string", omitempty |-> FALSE],
       [name |-> "Region", key |-> "region", kind |-> "string", omitempty |-> FALSE],
       [name |-> "HTTPAttemptsCount", key |-> "http_attempts_count", kind |-> "string",
        omitempty |-> FALSE],
       [name |-> "HTTPRetryDelay", key |-> "http_retry_delay", kind |-> "string",
        omitempty |-> FALSE],
       [name |-> "BrowserType", key |-> "browser_type", kind |-> "string",
        omitempty |-> TRUE],
       [name |-> "BrowserExecutablePath", key |-> "browser_executable_path",
        kind |-> "string", omitempty |-> TRUE],
       [name |-> "BrowserAutoFill", key |-> "browser_autofill", kind |-> "bool",
        omitempty |-> TRUE],
       [name |-> "DownloadBrowser", key |-> "download_browser_driver", kind |-> "bool",
        omitempty |-> FALSE],
       [name |-> "BrowserDriverDir", key |-> "browser_driver_dir", kind |-> "string",
        omitempty |-> TRUE],
       [name |-> "Headless", key |-> "headless", kind |-> "bool", omitempty |-> FALSE],
       [name |-> "Prompter", key |-> "prompter", kind |-> "string", omitempty |-> FALSE] >>

\* The decimal digits of n >= 0.
RECURSIVE Digits(_)
Digits(n) == IF n < 10 THEN <<48 + n>> ELSE Digits(n \div 10) \o <<48 + (n % 10)>>

\* fmt.Sprint of an int.
FormatInt(n) == IF n < 0 THEN <<45>> \o Digits(0 - n) ELSE Digits(n)

\* fmt.Sprint of a bool.
FormatBool(b) == IF b THEN s_true ELSE s_false

\* The value of the digits s in the given base.
RECURSIVE DigitsValue(_, _)
DigitsValue(s, base) ==
    IF s = <<>> THEN 0
    ELSE DigitsValue(SubSeq(s, 1, Len(s) - 1), base) * base + (s[Len(s)] - 48)

\* Key.Int64, strconv.ParseInt(s, 0, 64): an optional sign, then decimal
\* digits, or a leading 0 and octal digits.  (The files of the model hold no
\* 0x, 0b, 0o prefix, no underscore and no number beyond 32 bits.)
ParseInt(s) ==
    LET signed == s # <<>> /\ s[1] \in {43, 45}
        d == IF signed THEN Tail(s) ELSE s
        octal == Len(d) > 1 /\ d[1] = 48
        ok == /\ d # <<>>
              /\ \A i \in 1..Len(d) : IsDigit(d[i]) /\ (octal => d[i] <= 55)
        v == DigitsValue(d, IF octal THEN 8 ELSE 10)
    IN  IF ~ok THEN [ok |-> FALSE, v |-> 0]
        ELSE [ok |-> TRUE, v |-> IF signed /\ s[1] = 45 THEN 0 - v ELSE v]

\* Key.Bool, ini's parseBool.
ParseBool(s) ==
    IF s \in { <<49>>, <<116>>, <<84>>, <<116, 114, 117, 101>>, <<84, 82, 85, 69>>,
               <<84, 114, 117, 101>>, <<89, 69, 83>>, <<121, 101, 115>>,
               <<89, 101, 115>>, <<121>>, <<79, 78>>, <<111, 110>>, <<79, 110>> }
    THEN [ok |-> TRUE, v |-> TRUE]
    ELSE IF s \in { <<48>>, <<102>>, <<70>>, <<102, 97, 108, 115, 101>>,
                    <<70, 65, 76, 83, 69>>, <<70, 97, 108, 115, 101>>, <<78, 79>>,
                    <<110, 111>>, <<78, 111>>, <<110>>, <<79, 70, 70>>,
                    <<111, 102, 102>>, <<79, 102, 102>> }
    THEN [ok |-> TRUE, v |-> FALSE]
    ELSE [ok |-> FALSE, v |-> FALSE]

\* Section.GetKey, as the name of the section whose key it returns in a
\* one-element sequence, or <<>> when it returns an error.  A key the section
\* does not hold is looked up in its parents: the names cut at their last
\* "." (byte 46), the empty name standing for the default section.
RECURSIVE GetKey(_, _, _), ParentGetKey(_, _, _)
GetKey(cfg, secName, key) ==
    IF key \in DOMAIN cfg[secName] THEN <<secName>>
    ELSE ParentGetKey(cfg, secName, key)

ParentGetKey(cfg, sname, key) ==
    LET i == LastIndexByte(sname, 46)
        up == SubSeq(sname, 1, i - 1)
        sec == IF up = <<>> THEN s_DefaultSection ELSE up
    IN  IF i = 0 THEN <<>>
        ELSE IF sec \in DOMAIN cfg THEN GetKey(cfg, sec, key)
        ELSE ParentGetKey(cfg, up, key)

\* ini.LoadSources(LoadOptions{Loose: true}, path): a missing file loads as
\* an empty one; a file that exists and does not parse is an error.  A loaded
\* file always has the default section.
LoadSources(file) ==
    IF file.state = "malformed" THEN [err |-> TRUE, cfg |-> <<>>]
    ELSE [err |-> FALSE,
          cfg |-> IF s_DefaultSection \in DOMAIN file.sections THEN file.sections
                  ELSE file.sections @@ (s_DefaultSection :> <<>>)]

\* File.NewSection: an error for the empty name; the section of that name
\* when the file has one; else a new, empty section.
NewSection(cfg, name) ==
    IF name = <<>> THEN [err |-> TRUE, cfg |-> cfg]
    ELSE IF name \in DOMAIN cfg THEN [err |-> FALSE, cfg |-> cfg]
    ELSE [err |-> FALSE, cfg |-> cfg @@ (name :> <<>>)]

\* File.Section: the section of that name (the default section for the empty
\* name), created empty when the file has none.
Section(cfg, name) ==
    LET n == IF name = <<>> THEN s_DefaultSection ELSE name
    IN  [name |-> n, cfg |-> IF n \in DOMAIN cfg THEN cfg ELSE cfg @@ (n :> <<>>)]

\* isEmptyValue of a field.
isEmptyValue(f, v) ==
    CASE f.kind = "string" -> v = <<>>
      [] f.kind = "bool" -> v = FALSE
      [] f.kind = "int" -> v = 0

\* reflectWithProperType: the text written for a field.
FormatField(f, v) ==
    CASE f.kind = "string" -> v
      [] f.kind = "bool" -> FormatBool(v)
      [] f.kind = "int" -> FormatInt(v)

\* One iteration of reflectFrom's loop: an omitempty field with an empty
\* value is skipped; else the key GetKey returns (the section's own, or a
\* parent's), or a new key of the section, is set to the field's text.
ReflectField(cfg, secName, f, v) ==
    IF f.omitempty /\ isEmptyValue(f, v) THEN cfg
    ELSE LET owner == GetKey(cfg, secName, f.key)
             target == IF owner = <<>> THEN secName ELSE owner[1]
         IN  [cfg EXCEPT ![target] = (f.key :> FormatField(f, v)) @@ @]

\* Section.ReflectFrom(account): the fields from the i-th on.
RECURSIVE ReflectFrom(_, _, _, _)
ReflectFrom(cfg, secName, account, i) ==
    IF i > Len(Fields) THEN cfg
    ELSE ReflectFrom(ReflectField(cfg, secName, Fields[i], account[Fields[i].name]),
                     secName, account, i + 1)

\* setWithProperType: a string field is set unless the value is empty; a bool
\* or int field is set when the value parses, and left alone when not (MapTo
\* is not strict).
SetField(account, f, text) ==
    CASE f.kind = "string" ->
           IF text = <<>> THEN account ELSE [account EXCEPT ![f.name] = text]
      [] f.kind = "bool" ->
           IF ParseBool(text).ok THEN [account EXCEPT ![f.name] = ParseBool(text).v]
           ELSE account
      [] f.kind = "int" ->
           IF ParseInt(text).ok THEN [account EXCEPT ![f.name] = ParseInt(text).v]
           ELSE account

\* Section.MapTo(account): the fields from the i-th on; a field whose key
\* GetKey does not find is left alone.
RECURSIVE MapTo(_, _, _, _)
MapTo(cfg, secName, account, i) ==
    IF i > Len(Fields) THEN account
    ELSE LET f == Fields[i]
             owner == GetKey(cfg, secName, f.key)
         IN  MapTo(cfg, secName,
                   IF owner = <<>> THEN account
                   ELSE SetField(account, f, cfg[owner[1]][f.key]),
                   i + 1)

\* File.SaveTo: every section is written; the default section only when it
\* has keys.
SaveTo(cfg) ==
    [state |-> "ok",
     sections |-> [n \in { m \in DOMAIN cfg :
                             m # s_DefaultSection \/ DOMAIN cfg[m] # {} } |-> cfg[n]]]

----------------------------------------------------------------------------
(* ConfigManager.                                                          *)

SaveIDPAccountValidatesLast(file, idpAccountName, account, writable) ==
    LET loaded == LoadSources(file)
        newSec == NewSection(loaded.cfg, idpAccountName)
        written == SaveTo(ReflectFrom(newSec.cfg, idpAccountName, account, 1))
    IN  IF loaded.err
        THEN [err |-> "Unable to load configuration file", io |-> <<"read">>,
              file |-> file]
        ELSE IF newSec.err
        THEN [err |-> "Unable to build a new section in configuration file",
              io |-> <<"read">>, file |-> file]
        ELSE IF ~writable
        THEN [err |-> "Failed to save configuration file",
              io |-> <<"read", "write">>, file |-> file]
        ELSE IF Validate(account) # "nil"
        THEN [err |-> "Account validation failed", io |-> <<"read", "write">>,
              file |-> written]
        ELSE [err |-> "nil", io |-> <<"read", "write">>, file |-> written]

\* SaveIDPAccount: the error it returns, the file I/O it does and the file it
\* leaves.  writable says whether the file can be opened for writing.
SaveIDPAccount(file, idpAccountName, account, writable) ==
    LET loaded == LoadSources(file)
        newSec == NewSection(loaded.cfg, idpAccountName)
        written == SaveTo(ReflectFrom(newSec.cfg, idpAccountName, account, 1))
    IN  IF Validate(account) # "nil"
        THEN [err |-> "Account validation failed", io |-> <<>>, file |-> file]
        ELSE IF loaded.err
        THEN [err |-> "Unable to load configuration file", io |-> <<"read">>,
              file |-> file]
        ELSE IF newSec.err
        THEN [err |-> "Unable to build a new section in configuration file",
              io |-> <<"read">>, file |-> file]
        ELSE IF ~writable
        THEN [err |-> "Failed to save configuration file",
              io |-> <<"read", "write">>, file |-> file]
        ELSE [err |-> "nil", io |-> <<"read", "write">>, file |-> written]

\* What LoadIDPAccount returns for the account when it returns an error.
NoAccount == [nil |-> TRUE]

\* readAccount: a fresh default account with the section mapped onto it.
readAccount(idpAccountName, cfg) ==
    LET sec == Section(cfg, idpAccountName)
    IN  MapTo(sec.cfg, sec.name, NewIDPAccount, 1)

\* LoadIDPAccount: the account and the error it returns.
LoadIDPAccount(file, idpAccountName) ==
    LET loaded == LoadSources(file)
    IN  IF loaded.err
        THEN [account |-> NoAccount, err |-> "Unable to load configuration file"]
        ELSE [account |-> readAccount(idpAccountName, loaded.cfg), err |-> "nil"]

s_work == <<119, 111, 114, 107>>  \* "work"
s_work_dev == <<119, 111, 114, 107, 46, 100, 101, 118>>  \* "work.dev"
s_url_idp ==
    <<104, 116, 116, 112, 115, 58, 47, 47, 105, 100, 112, 46, 101, 120, 97, 109,
      112, 108, 101, 46, 99, 111, 109, 47, 115, 97, 109, 108>>  \* "https://idp.example.com/saml"
s_alice == <<97, 108, 105, 99, 101>>  \* "alice"
s_chrome == <<99, 104, 114, 111, 109, 101>>  \* "chrome"
s_abc == <<97, 98, 99>>  \* "abc"
s_yes == <<121, 101, 115>>  \* "yes"

\* The section names the commands are run with: none, the default section's,
\* a profile's and a name with a "." in it.
SectionNames == {s_empty, s_DefaultSection, s_work, s_work_dev}

\* Accounts that pass Validate: one that sets only the required fields, one
\* of the Browser provider with its optional fields set, and one that empties
\* the fields NewIDPAccount fills in.
acctOkta ==
    [NewIDPAccount EXCEPT !.Provider = s_Okta, !.MFA = s_Auto, !.URL = s_url_idp,
                          !.Username = s_alice]
acctBrowser ==
    [acctOkta EXCEPT !.Provider = s_Browser, !.BrowserType = s_chrome,
                     !.BrowserAutoFill = TRUE, !.Headless = TRUE, !.Timeout = 30]
acctOneLogin ==
    [acctOkta EXCEPT !.Provider = s_OneLogin, !.AppID = s_x, !.Subdomain = s_x,
                     !.AlibabaCloudURN = <<>>, !.SessionDuration = 0]

\* Accounts that fail Validate: no URL; OneLogin with no AppID.
acctNoURL == [acctOkta EXCEPT !.URL = <<>>]
acctOneLoginNoAppID == [acctOneLogin EXCEPT !.AppID = <<>>]

StoreAccounts == {acctOkta, acctBrowser, acctOneLogin, acctNoURL, acctOneLoginNoAppID}

\* The configuration file before the first command: missing; one that does
\* not parse; one a user wrote by hand, with a section that holds some keys.
InitialFiles ==
    { NoFile,
      [state |-> "malformed", sections |-> <<>>],
      [state |-> "ok",
       sections |-> (s_work :> (("url" :> s_url_idp) @@ ("provider" :> s_Okta) @@
                                ("skip_verify" :> s_yes) @@
                                ("alibabacloud_session_duration" :> s_abc)))] }

Init ==
    /\ MFAsByProvider = InitialMFAsByProvider
    /\ configFile \in InitialFiles
    /\ call = [op |-> "idle"]
    /\ invocations = NoInvocations

CallSaveIDPAccount ==
    /\ call.op = "idle"
    /\ \E idpAccountName \in SectionNames, account \in StoreAccounts, writable \in BOOLEAN :
          LET r == SaveIDPAccount(configFile, idpAccountName, account, writable)
          IN  /\ call' = [op |-> "SaveIDPAccount", name |-> idpAccountName,
                          account |-> account, err |-> r.err, io |-> r.io]
              /\ configFile' = r.file
    /\ UNCHANGED <<MFAsByProvider, invocations>>

CallLoadIDPAccount ==
    /\ call.op = "idle"
    /\ \E idpAccountName \in SectionNames :
          LET r == LoadIDPAccount(configFile, idpAccountName)
          IN  call' = [op |-> "LoadIDPAccount", name |-> idpAccountName,
                       account |-> r.account, err |-> r.err, io |-> <<"read">>]
    /\ UNCHANGED <<MFAsByProvider, configFile, invocations>>

Next == CallSaveIDPAccount \/ CallLoadIDPAccount \/ Return

Spec == Init /\ [][Next]_vars

----------------------------------------------------------------------------
(* PromptForRamRoleSelection.                                              *)

s_Acct1 == <<65, 99, 99, 116, 49>>  \* "Acct1"
s_Acct2 == <<65, 99, 99, 116, 50>>  \* "Acct2"
s_Admin == <<65, 100, 109, 105, 110>>  \* "Admin"
s_Viewer == <<86, 105, 101, 119, 101, 114>>  \* "Viewer"
s_arn_1 == <<97, 99, 115, 58, 114, 97, 109, 58, 58, 49, 58, 114, 111, 108, 101, 47, 114>>  \* "acs:ram::1:role/r"
s_arn_2 == <<97, 99, 115, 58, 114, 97, 109, 58, 58, 50, 58, 114, 111, 108, 101, 47, 114>>  \* "acs:ram::2:role/r"

\* The most accounts in a list, and the most roles in an account.
MaxAccounts == 2
MaxRoles == 2

RamRoles == [Name : {s_Admin, s_Viewer}, RoleARN : {s_arn_1, s_arn_2}]
AlibabaCloudAccounts ==
    [Name : {s_Acct1, s_Acct2},
     Roles : UNION { [1..n -> RamRoles] : n \in 0..MaxRoles }]
AccountLists == UNION { [1..n -> AlibabaCloudAccounts] : n \in 0..MaxAccounts }

NoRole == [nil |-> TRUE]

\* fmt.Sprintf("%s / %s", account.Name, role.Name)
RoleLabel(account, role) == account.Name \o <<32, 47, 32>> \o role.Name

\* The loops of PromptForRamRoleSelection, from account i and role j on:
\* roleOptions in the order appended, and the roles map, in which a later
\* role replaces an earlier one of the same label.
RECURSIVE CollectRoles(_, _, _, _)
CollectRoles(accounts, i, j, acc) ==
    IF i > Len(accounts) THEN acc
    ELSE IF j > Len(accounts[i].Roles) THEN CollectRoles(accounts, i + 1, 1, acc)
    ELSE LET role == accounts[i].Roles[j]
             name == RoleLabel(accounts[i], role)
         IN  CollectRoles(accounts, i, j + 1,
                          [roles |-> (name :> role) @@ acc.roles,
                           roleOptions |-> Append(acc.roleOptions, name)])

\* PromptForRamRoleSelection(accounts): every way the call can end.  Indexing
\* roleOptions[0] when no role was collected is a run-time panic; else the
\* prompter is offered the sorted labels with the first as the default.
PromptForRamRoleSelection(accounts) ==
    LET c == CollectRoles(accounts, 1, 1, [roles |-> <<>>, roleOptions |-> <<>>])
        roleOptions == SortStrings(c.roleOptions)
    IN  IF roleOptions = <<>>
        THEN { [outcome |-> "panic", offered |-> <<>>, default |-> <<>>,
                selected |-> <<>>, role |-> NoRole] }
        ELSE { IF s.err
               THEN [outcome |-> "error", offered |-> roleOptions,
                     default |-> roleOptions[1], selected |-> s.v, role |-> NoRole]
               ELSE [outcome |-> "ok", offered |-> roleOptions,
                     default |-> roleOptions[1], selected |-> s.v,
                     role |-> c.roles[s.v]] :
               s \in ChooseWithDefault(SeqToSet(roleOptions)) }

InitRoles ==
    /\ MFAsByProvider = InitialMFAsByProvider
    /\ configFile = NoFile
    /\ call = [op |-> "idle"]
    /\ invocations = NoInvocations

CallPromptForRamRoleSelection ==
    /\ call.op = "idle"
    /\ \E accounts \in AccountLists :
       \E r \in PromptForRamRoleSelection(accounts) :
          call' = [op |-> "PromptForRamRoleSelection", accounts |-> accounts,
                   outcome |-> r.outcome, offered |-> r.offered,
                   default |-> r.default, selected |-> r.selected, role |-> r.role]
    /\ UNCHANGED <<MFAsByProvider, configFile, invocations>>

NextRoles == CallPromptForRamRoleSelection \/ Return

SpecRoles == InitRoles /\ [][NextRoles]_vars

----------------------------------------------------------------------------
(* Two invocations of the CLI saving to the same file at the same time.    *)
(* SaveIDPAccount takes no lock, so its steps interleave with the other    *)
(* invocation's.  File.SaveTo (v1.57.0) formats the file into a buffer and *)
(* hands it to ioutil.WriteFile, which opens the file with O_TRUNC, so     *)
(* that the open empties it, and then writes the buffer from offset 0.     *)

s_home == <<104, 111, 109, 101>>  \* "home"

Invocations == {1, 2}

\* The section names and the accounts the two invocations save.
ConcurrentNames == {s_work, s_home}
ConcurrentAccounts == {acctOkta, acctBrowser, acctNoURL}

\* writeToBuffer, by the number of bytes it writes.  A key's line is the key,
\* padded to the longest key of its section, " = ", the value and a line
\* break.
KeyWidth(sec) ==
    IF DOMAIN sec = {} THEN 0
    ELSE CHOOSE w \in { Len(k) : k \in DOMAIN sec } : \A k \in DOMAIN sec : Len(k) <= w

RECURSIVE KeyLinesLen(_, _)
KeyLinesLen(sec, keys) ==
    IF keys = {} THEN 0
    ELSE LET k == CHOOSE x \in keys : TRUE
         IN  KeyWidth(sec) + 3 + Len(sec[k]) + 1 + KeyLinesLen(sec, keys \ {k})

\* A section is its header "[name]" and a line break (the default section
\* has no header), its keys' lines and an empty line.
RECURSIVE writeToBufferLen(_, _)
writeToBufferLen(sections, names) ==
    IF names = {} THEN 0
    ELSE LET n == CHOOSE x \in names : TRUE
         IN  (IF n = s_DefaultSection THEN 0 ELSE Len(n) + 3)
             + KeyLinesLen(sections[n], DOMAIN sections[n]) + 1
             + writeToBufferLen(sections, names \ {n})

\* The size of the file in bytes.
FileLen(file) ==
    CASE file.state = "missing" -> 0
      [] file.state = "torn" -> file.len
      [] OTHER -> writeToBufferLen(file.sections, DOMAIN file.sections)

\* os.OpenFile(name, O_WRONLY|O_CREATE|O_TRUNC): the file exists and is empty.
OpenTruncate == [state |-> "ok", sections |-> <<>>]

\* File.Write(buf) on a descriptor at offset 0: the buffer replaces the first
\* bytes of the file.  Over a longer file, written by another descriptor
\* since the open, the bytes past the buffer's end stay: the file is the
\* buffer followed by the end of what was there.
WriteAtStart(file, buf) ==
    IF FileLen(file) <= FileLen(buf) THEN buf
    ELSE [state |-> "torn", head |-> buf, tail |-> file, len |-> FileLen(file)]

\* An invocation that is about to call SaveIDPAccount(name, account).
Invocation(name, account) ==
    [pc |-> "validate", name |-> name, account |-> account, cfg |-> <<>>,
     buf |-> NoFile, err |-> "none", wrote |-> 0]

\* How many writes of the file have completed.
Writes == Cardinality({ p \in Invocations : invocations[p].wrote > 0 })

InitConcurrent ==
    /\ MFAsByProvider = InitialMFAsByProvider
    /\ configFile \in InitialFiles
    /\ call = [op |-> "idle"]
    /\ invocations \in
         [Invocations -> { Invocation(n, a) : n \in ConcurrentNames, a \in ConcurrentAccounts }]

\* account.Validate() and the return of its error.
SaveValidate(p) ==
    /\ invocations[p].pc = "validate"
    /\ invocations' =
         [invocations EXCEPT ![p] =
            IF Validate(@.account) # "nil"
            THEN [@ EXCEPT !.pc = "done", !.err = "Account validation failed"]
            ELSE [@ EXCEPT !.pc = "load"]]
    /\ UNCHANGED <<MFAsByProvider, configFile, call>>

\* ini.LoadSources: the file as it is now is read and parsed.
SaveLoadSources(p) ==
    /\ invocations[p].pc = "load"
    /\ LET loaded == LoadSources(configFile)
       IN  invocations' =
             [invocations EXCEPT ![p] =
                IF loaded.err
                THEN [@ EXCEPT !.pc = "done", !.err = "Unable to load configuration file"]
                ELSE [@ EXCEPT !.pc = "reflect", !.cfg = loaded.cfg]]
    /\ UNCHANGED <<MFAsByProvider, configFile, call>>

\* cfg.NewSection, newSec.ReflectFrom and SaveTo's writeToBuffer, all on the
\* invocation's own copy of the file.
SaveReflectFrom(p) ==
    /\ invocations[p].pc = "reflect"
    /\ LET inv == invocations[p]
           newSec == NewSection(inv.cfg, inv.name)
           cfg == ReflectFrom(newSec.cfg, inv.name, inv.account, 1)
       IN  invocations' =
             [invocations EXCEPT ![p] =
                IF newSec.err
                THEN [@ EXCEPT !.pc = "done",
                               !.err = "Unable to build a new section in configuration file"]
                ELSE [@ EXCEPT !.pc = "open", !.cfg = cfg, !.buf = SaveTo(cfg)]]
    /\ UNCHANGED <<MFAsByProvider, configFile, call>>

\* ioutil.WriteFile opens the file, which empties it, or fails to.
SaveOpenTruncate(p) ==
    /\ invocations[p].pc = "open"
    /\ \E writable \in BOOLEAN :
          IF writable
          THEN /\ configFile' = OpenTruncate
               /\ invocations' = [invocations EXCEPT ![p].pc = "write"]
          ELSE /\ configFile' = configFile
               /\ invocations' =
                    [invocations EXCEPT ![p].pc = "done",
                                        ![p].err = "Failed to save configuration file"]
    /\ UNCHANGED <<MFAsByProvider, call>>

\* ioutil.WriteFile writes the buffer and closes; SaveIDPAccount returns nil.
SaveWrite(p) ==
    /\ invocations[p].pc = "write"
    /\ configFile' = WriteAtStart(configFile, invocations[p].buf)
    /\ invocations' =
         [invocations EXCEPT ![p].pc = "done", ![p].err = "nil",
                             ![p].wrote = Writes + 1]
    /\ UNCHANGED <<MFAsByProvider, call>>

NextConcurrent ==
    \E p \in Invocations :
        \/ SaveValidate(p)
        \/ SaveLoadSources(p)
        \/ SaveReflectFrom(p)
        \/ SaveOpenTruncate(p)
        \/ SaveWrite(p)

SpecConcurrent == InitConcurrent /\ [][NextConcurrent]_vars

----------------------------------------------------------------------------
(* Claims about the provider registry, checked under SpecRegistry.         *)

\* C1, as stated: for every key P of the table other than "Browser" ("Shell",
\* the other provider named, is no key) and every MFA m, NewSAMLClient calls
\* P's constructor if and only if m is an element of the table's list for P,
\* and else returns "invalid MFA type" and constructs nothing.
C1_MFAValidatedExceptBrowserAndShell ==
    (call.op = "NewSAMLClient"
        /\ call.provider \in DOMAIN InitialMFAsByProvider \ {s_Browser, s_Shell})
    => IF call.mfa \in SeqToSet(InitialMFAsByProvider[call.provider])
       THEN call.err = "nil" /\ call.new # "none"
       ELSE call.err = "invalid MFA type" /\ call.new = "none"

\* C1, amended: the same for every key P of the table other than "Browser"
\* and "Custom", the two keys whose case of the switch does not call
\* invalidMFA.
C1_MFAValidatedExceptBrowserAndCustom ==
    (call.op = "NewSAMLClient"
        /\ call.provider \in DOMAIN InitialMFAsByProvider \ {s_Browser, s_Custom})
    => IF call.mfa \in SeqToSet(InitialMFAsByProvider[call.provider])
       THEN call.err = "nil" /\ call.new # "none"
       ELSE call.err = "invalid MFA type" /\ call.new = "none"

\* C1, witness: "Auto" is refused for ShibbolethECP, whose list holds "auto",
\* after an earlier call has sorted that list.
C1_Witness ==
    /\ call.op = "NewSAMLClient"
    /\ call.provider = s_ShibbolethECP
    /\ call.mfa = s_Auto
    /\ call.err = "invalid MFA type"
    /\ call.new = "none"
    /\ MFAsByProvider[s_ShibbolethECP] # InitialMFAsByProvider[s_ShibbolethECP]

\* C2, as stated: NewSAMLClient returns "invalid provider" and constructs
\* nothing for every provider name that is no key of MFAsByProvider.
C2_UnknownProviderNotAKey ==
    (call.op = "NewSAMLClient" /\ call.provider \notin DOMAIN MFAsByProvider)
    => call.err = "invalid provider" /\ call.new = "none"

\* C2, amended: NewSAMLClient returns "invalid provider" and constructs
\* nothing for every provider name that is neither a key of MFAsByProvider
\* nor "Shell", which the switch dispatches though the table does not list it.
C2_UnknownProviderNotAKeyNorShell ==
    (call.op = "NewSAMLClient"
        /\ call.provider \notin DOMAIN MFAsByProvider \cup {s_Shell})
    => call.err = "invalid provider" /\ call.new = "none"

\* C2, witness: "okta", which differs from the key "Okta" in case, is refused.
C2_Witness ==
    /\ call.op = "NewSAMLClient"
    /\ call.provider = s_okta_lower
    /\ call.err = "invalid provider"
    /\ call.new = "none"

\* C8: no call changes MFAsByProvider: its keys, and the elements and their
\* order in every provider's list, stay as initialized.
C8_TableReadOnly == MFAsByProvider = InitialMFAsByProvider

----------------------------------------------------------------------------
(* Claims about IDPAccount.Validate, checked under SpecValidate.           *)

\* The conditions C5 lists.
C5_ListedConditions(ia) ==
    \/ ia.Provider = s_OneLogin /\ (ia.AppID = <<>> \/ ia.Subdomain = <<>>)
    \/ ia.Provider = s_F5APM /\ ia.ResourceID = <<>>
    \/ ia.Provider = s_AzureAD /\ ia.AppID = <<>>
    \/ ia.URL # <<>> /\ UrlParse(ia.URL) # "nil"
    \/ ia.Provider = <<>>
    \/ ia.MFA = <<>>
    \/ ia.Profile = <<>>

\* C5, as stated: Validate rejects an account if and only if one of the
\* listed conditions holds (OneLogin without AppID or Subdomain, F5APM
\* without ResourceID, AzureAD without AppID, a non-empty URL that does not
\* parse, an empty provider, MFA or profile).
C5_RejectsIffListed ==
    call.op = "Validate" => (call.err # "nil" <=> C5_ListedConditions(call.account))

\* C5, amended: Validate rejects an account if and only if one of the listed
\* conditions holds or the URL is empty.
C5_RejectsIffListedOrURLEmpty ==
    call.op = "Validate"
    => (call.err # "nil" <=> (C5_ListedConditions(call.account) \/ call.account.URL = <<>>))

\* C5, witness: an OneLogin account with AppID, Subdomain, provider, MFA and
\* profile set is rejected for its empty URL alone.
C5_Witness ==
    /\ call.op = "Validate"
    /\ call.account.Provider = s_OneLogin
    /\ ~C5_ListedConditions(call.account)
    /\ call.account.URL = <<>>
    /\ call.err = "URL empty in idp account"

----------------------------------------------------------------------------
(* Claims about the configuration store, checked under Spec.               *)

\* The section of the file a name stands for: the default section for the
\* empty name.
StoredName(n) == IF n = <<>> THEN s_DefaultSection ELSE n

\* What the file holds for a section: its keys and values, or none.
StoredSection(file, n) ==
    IF StoredName(n) \in DOMAIN file.sections
    THEN [present |-> TRUE, keys |-> file.sections[StoredName(n)]]
    ELSE [present |-> FALSE, keys |-> <<>>]

\* C3: after a successful SaveIDPAccount(n, A), LoadIDPAccount(n) returns,
\* without an error, an account equal to A in every field, whatever the file
\* held before.
C3_SaveLoadRoundTrip ==
    (call.op = "SaveIDPAccount" /\ call.err = "nil")
    => LoadIDPAccount(configFile, call.name)
         = [account |-> call.account, err |-> "nil"]

\* C4: a successful SaveIDPAccount under n leaves, for every other section m,
\* the stored content of m as it was, and LoadIDPAccount(m) returns after the
\* save what it returned before it.
C4_SaveLeavesOtherSections ==
    [][ (call'.op = "SaveIDPAccount" /\ call'.err = "nil")
        => \A m \in SectionNames :
              StoredName(m) # StoredName(call'.name)
              => /\ StoredSection(configFile', m) = StoredSection(configFile, m)
                 /\ LoadIDPAccount(configFile', m) = LoadIDPAccount(configFile, m) ]_vars

\* C6: a SaveIDPAccount whose account fails Validate returns the validation
\* error having done no file I/O, and leaves the file, and so what
\* LoadIDPAccount returns for every name, as it was.
C6_ValidationBeforeFileIO ==
    [][ (call'.op = "SaveIDPAccount" /\ Validate(call'.account) # "nil")
        => /\ call'.err = "Account validation failed"
           /\ call'.io = <<>>
           /\ configFile' = configFile
           /\ \A n \in SectionNames :
                 LoadIDPAccount(configFile', n) = LoadIDPAccount(configFile, n) ]_vars

\* C6, witness: a save under "work" of an account with no URL has been
\* refused while the file holds a section "work" saved earlier.
C6_Witness ==
    /\ call.op = "SaveIDPAccount"
    /\ call.name = s_work
    /\ call.account = acctNoURL
    /\ call.err = "Account validation failed"
    /\ configFile.state = "ok"
    /\ s_work \in DOMAIN configFile.sections
    /\ "browser_type" \in DOMAIN configFile.sections[s_work]

\* C10: LoadIDPAccount of a name the file has no section for (the file may be
\* missing) returns without an error the account NewIDPAccount builds; and of
\* a name the file has a section for, every field whose key the section does
\* not hold keeps the value NewIDPAccount gives it.
C10_LoadDefaults ==
    call.op = "LoadIDPAccount"
    => LET sec == StoredSection(configFile, call.name)
       IN  IF ~sec.present
           THEN call.err = "nil" /\ call.account = NewIDPAccount
           ELSE /\ call.err = "nil"
                /\ \A i \in 1..Len(Fields) :
                      Fields[i].key \notin DOMAIN sec.keys
                      => call.account[Fields[i].name] = NewIDPAccount[Fields[i].name]

----------------------------------------------------------------------------
(* Claims about PromptForRamRoleSelection, checked under SpecRoles.        *)

\* The composite labels of all roles of all accounts, in input order.
RECURSIVE C9_Labels(_)
C9_Labels(accounts) ==
    IF accounts = <<>> THEN <<>>
    ELSE [j \in 1..Len(accounts[1].Roles) |-> RoleLabel(accounts[1], accounts[1].Roles[j])]
         \o C9_Labels(Tail(accounts))

\* s is in ascending byte-wise order.
C9_Ascending(s) == \A i \in 1..(Len(s) - 1) : s[i] = s[i + 1] \/ Less(s[i], s[i + 1])

\* s and t hold the same strings, each as many times.
C9_SameStrings(s, t) ==
    \A x \in SeqToSet(s) \cup SeqToSet(t) :
        Cardinality({ i \in 1..Len(s) : s[i] = x })
          = Cardinality({ i \in 1..Len(t) : t[i] = x })

\* C7: on an empty list of accounts PromptForRamRoleSelection returns an
\* error to its caller: it does not panic and returns no role.
C7_EmptyListReturnsError ==
    (call.op = "PromptForRamRoleSelection" /\ call.accounts = <<>>)
    => call.outcome = "error" /\ call.role = NoRole

\* C9: on every non-empty list of accounts the prompter is offered the
\* labels of all roles of all accounts in ascending byte-wise order, with the
\* first of them as the default, and a label it returns from those offered
\* yields a role of the input with that label.
C9_SortedLabelsOffered ==
    (call.op = "PromptForRamRoleSelection" /\ call.accounts # <<>>)
    => /\ call.outcome # "panic"
       /\ C9_SameStrings(call.offered, C9_Labels(call.accounts))
       /\ C9_Ascending(call.offered)
       /\ call.default = call.offered[1]
       /\ call.outcome = "ok"
          => \E i \in 1..Len(call.accounts) :
             \E j \in 1..Len(call.accounts[i].Roles) :
                /\ call.role = call.accounts[i].Roles[j]
                /\ RoleLabel(call.accounts[i], call.role) = call.selected

----------------------------------------------------------------------------
(* Claims about concurrent saves, checked under SpecConcurrent.            *)

\* Both invocations have returned from SaveIDPAccount, having saved accounts
\* that pass Validate under different section names.
C11_BothReturned ==
    /\ invocations # NoInvocations
    /\ \A p \in Invocations : invocations[p].pc = "done"
    /\ \A p \in Invocations : Validate(invocations[p].account) = "nil"
    /\ invocations[1].name # invocations[2].name

\* C11: when two invocations have saved valid accounts under different
\* section names, the file is, in every interleaving, the whole-file image
\* that the invocation which wrote last has written.  (That some interleaving
\* loses one invocation's section is C11_LostUpdate.)
C11_LastWriteWins ==
    C11_BothReturned
    => \A p \in Invocations :
          (invocations[p].wrote > 0 /\ invocations[p].wrote = Writes)
          => configFile = invocations[p].buf

\* C11, the lost update: both invocations have returned nil, and the file is
\* the image one of them wrote, without the section the other saved.
C11_LostUpdate ==
    /\ C11_BothReturned
    /\ \A p \in Invocations : invocations[p].err = "nil"
    /\ configFile.state = "ok"
    /\ \E p \in Invocations :
          /\ invocations[p].name \notin DOMAIN configFile.sections
          /\ \E q \in Invocations \ {p} : configFile = invocations[q].buf

====
